---- MODULE Spec2Model ----
(***************************************************************************)
(* Model of the ekumen::math isometry library: Vector3, Matrix3, Isometry. *)
(* A double is modelled as an exact number (a rational plus a multiple of  *)
(* the machine epsilon), so every arithmetic operator is computed exactly; *)
(* rounding is outside the model.                                          *)
(***************************************************************************)
EXTENDS Integers, Sequences, FiniteSets, TLC

\* mat, vec: a Matrix3 and a Vector3 object reached through the accessors
\* iso:      the Isometry objects a and b of the in-place operators
\* op, args: the last call and its arguments;  ret: what it returned or threw
\* steps:    number of mutating calls so far
VARIABLES mat, vec, iso, op, args, ret, steps

vars == <<mat, vec, iso, op, args, ret, steps>>

(***************************************************************************)
(* double: the exact value n / d + u * 2^-52, as the record                *)
(* [n |-> numerator, d |-> denominator, u |-> multiple of epsilon], with   *)
(* d > 0 and n / d in lowest terms.  The epsilon part u holds values one   *)
(* or a few epsilon apart, which no 32-bit denominator can express; it is  *)
(* far smaller than the gap between two different n / d of the model.      *)
(***************************************************************************)
Abs(i) == IF i < 0 THEN -i ELSE i

RECURSIVE Gcd(_, _)
Gcd(i, j) == IF j = 0 THEN i ELSE Gcd(j, i % j)

Norm(n, d) ==
  LET g == Gcd(Abs(n), Abs(d))
      s == IF d < 0 THEN -1 ELSE 1
  IN  [n |-> s * (n \div g), d |-> s * (d \div g), u |-> 0]

R(i) == [n |-> i, d |-> 1, u |-> 0]

Q(n, d) == Norm(n, d)

RNeg(x) == [n |-> -x.n, d |-> x.d, u |-> -x.u]

RSign(x) ==
  IF x.n > 0 THEN 1 ELSE IF x.n < 0 THEN -1
  ELSE IF x.u > 0 THEN 1 ELSE IF x.u < 0 THEN -1 ELSE 0

RAbs(x) == IF RSign(x) < 0 THEN RNeg(x) ELSE x

RAdd(x, y) ==
  LET g == Gcd(x.d, y.d)
  IN  [Norm(x.n * (y.d \div g) + y.n * (x.d \div g), (x.d \div g) * y.d)
         EXCEPT !.u = x.u + y.u]

RSub(x, y) == RAdd(x, RNeg(y))

\* an operand with an epsilon part is multiplied by integers only
RMul(x, y) ==
  LET g1 == Gcd(Abs(x.n), y.d)
      g2 == Gcd(Abs(y.n), x.d)
  IN  [Norm((x.n \div g1) * (y.n \div g2), (x.d \div g2) * (y.d \div g1))
         EXCEPT !.u = x.u * y.n + y.u * x.n]

\* x / y for y # 0 without an epsilon part (callers divide by a value known
\* to be non-zero)
RDiv(x, y) == RMul(x, Norm(y.d, y.n))

RLt(x, y) ==
  LET g == Gcd(x.d, y.d)
      l == x.n * (y.d \div g)
      r == y.n * (x.d \div g)
  IN  l < r \/ (l = r /\ x.u < y.u)

RLe(x, y) == ~RLt(y, x)

\* sqrt of a rational that is a perfect square
ISqrt(i) == CHOOSE r \in 0..i : r * r = i

RSqrt(x) == [n |-> ISqrt(x.n), d |-> ISqrt(x.d), u |-> 0]

\* std::numeric_limits<double>::epsilon() is 2^-52 = 1 / (EpsRoot * EpsRoot)
EpsRoot == 67108864

Epsilon == [n |-> 0, d |-> 1, u |-> 1]

\* floor(k * d / 2^52) for a small k >= 0, computed without overflow
EpsFloor(k, d) ==
  (k * (d \div EpsRoot) + (k * (d % EpsRoot)) \div EpsRoot) \div EpsRoot

\* the comparison written with < instead of <=
LeEpsilon_Strict(x) ==
  LET a == RAbs(x)
  IN  IF a.u >= 1 THEN FALSE
      ELSE a.n <= EpsFloor(1 - a.u, a.d)

\* |x| <= epsilon: with a = |x|, a.n / a.d <= (1 - a.u) * 2^-52, that is
\* a.n * 2^52 <= (1 - a.u) * a.d
LeEpsilon(x) ==
  LET a == RAbs(x)
  IN  IF a.u >= 1 THEN a.n = 0 /\ a.u = 1
      ELSE a.n <= EpsFloor(1 - a.u, a.d)

(***************************************************************************)
(* Vector3: <<x_, y_, z_>>                                                 *)
(***************************************************************************)
Vector3(x, y, z) == <<x, y, z>>

V3(i, j, k) == <<R(i), R(j), R(k)>>

Vec_kZero == V3(0, 0, 0)
Vec_kUnitX == V3(1, 0, 0)
Vec_kUnitY == V3(0, 1, 0)
Vec_kUnitZ == V3(0, 0, 1)

VecAdd(a, b) == <<RAdd(a[1], b[1]), RAdd(a[2], b[2]), RAdd(a[3], b[3])>>

VecSub(a, b) == <<RSub(a[1], b[1]), RSub(a[2], b[2]), RSub(a[3], b[3])>>

VecMul(a, b) == <<RMul(a[1], b[1]), RMul(a[2], b[2]), RMul(a[3], b[3])>>

VecScale(a, s) == <<RMul(a[1], s), RMul(a[2], s), RMul(a[3], s)>>

ScaleVec(s, a) == VecScale(a, s)

VecEq(a, b) ==
  /\ LeEpsilon(RSub(a[1], b[1]))
  /\ LeEpsilon(RSub(a[2], b[2]))
  /\ LeEpsilon(RSub(a[3], b[3]))

VecNe(a, b) == ~VecEq(a, b)

\* operator[] whose default case falls back to z_ instead of throwing
VecIndex_NoThrow(a, i) ==
  CASE i = 0 -> [err |-> "none", val |-> a[1]]
    [] i = 1 -> [err |-> "none", val |-> a[2]]
    [] OTHER -> [err |-> "none", val |-> a[3]]

\* operator[]: the component for 0, 1, 2, std::out_of_range otherwise
VecIndex(a, i) ==
  CASE i = 0 -> [err |-> "none", val |-> a[1]]
    [] i = 1 -> [err |-> "none", val |-> a[2]]
    [] i = 2 -> [err |-> "none", val |-> a[3]]
    [] OTHER -> [err |-> "out_of_range", val |-> <<>>]

\* non-const operator[]: a reference to the component, named by its slot
VecIndexRef(a, i) ==
  CASE i = 0 -> [err |-> "none", val |-> 1]
    [] i = 1 -> [err |-> "none", val |-> 2]
    [] i = 2 -> [err |-> "none", val |-> 3]
    [] OTHER -> [err |-> "out_of_range", val |-> <<>>]

dot(a, b) == RAdd(RAdd(RMul(a[1], b[1]), RMul(a[2], b[2])), RMul(a[3], b[3]))

\* cross with a + for the - of the first component
cross_Plus(a, b) ==
  <<RAdd(RMul(a[2], b[3]), RMul(a[3], b[2])),
    RSub(RMul(a[3], b[1]), RMul(a[1], b[3])),
    RSub(RMul(a[1], b[2]), RMul(a[2], b[1]))>>

cross(a, b) ==
  <<RSub(RMul(a[2], b[3]), RMul(a[3], b[2])),
    RSub(RMul(a[3], b[1]), RMul(a[1], b[3])),
    RSub(RMul(a[1], b[2]), RMul(a[2], b[1]))>>

norm(a) == RSqrt(dot(a, a))

(***************************************************************************)
(* Matrix3: <<row_0_, row_1_, row_2_>>                                     *)
(***************************************************************************)
Matrix3(a1, a2, a3, b1, b2, b3, c1, c2, c3) ==
  <<Vector3(a1, a2, a3), Vector3(b1, b2, b3), Vector3(c1, c2, c3)>>

M3(a1, a2, a3, b1, b2, b3, c1, c2, c3) ==
  <<V3(a1, a2, a3), V3(b1, b2, b3), V3(c1, c2, c3)>>

Mat_kIdentity == M3(1, 0, 0, 0, 1, 0, 0, 0, 1)
Mat_kOnes == M3(1, 1, 1, 1, 1, 1, 1, 1, 1)
Mat_kZero == M3(0, 0, 0, 0, 0, 0, 0, 0, 0)

MatEq(a, b) == VecEq(a[1], b[1]) /\ VecEq(a[2], b[2]) /\ VecEq(a[3], b[3])

\* operator[] / row: the row for 0, 1, 2, std::out_of_range otherwise
MatIndex(a, i) ==
  CASE i = 0 -> [err |-> "none", val |-> a[1]]
    [] i = 1 -> [err |-> "none", val |-> a[2]]
    [] i = 2 -> [err |-> "none", val |-> a[3]]
    [] OTHER -> [err |-> "out_of_range", val |-> <<>>]

\* non-const operator[]: a reference to the row, named by its slot
MatIndexRef(a, i) ==
  CASE i = 0 -> [err |-> "none", val |-> 1]
    [] i = 1 -> [err |-> "none", val |-> 2]
    [] i = 2 -> [err |-> "none", val |-> 3]
    [] OTHER -> [err |-> "out_of_range", val |-> <<>>]

\* row(index) const and non-const: (*this)[index]
row(a, i) == MatIndex(a, i)

rowRef(a, i) == MatIndexRef(a, i)

\* col: Vector3{row_0_[index], row_1_[index], row_2_[index]}
col(a, i) ==
  LET c0 == VecIndex(a[1], i)
      c1 == VecIndex(a[2], i)
      c2 == VecIndex(a[3], i)
  IN  IF c0.err # "none" THEN c0
      ELSE IF c1.err # "none" THEN c1
      ELSE IF c2.err # "none" THEN c2
      ELSE [err |-> "none", val |-> Vector3(c0.val, c1.val, c2.val)]

\* operator*(const Matrix3&): row_i_ *= matrix[i], cell by cell
MatMulElem(a, b) == <<VecMul(a[1], b[1]), VecMul(a[2], b[2]), VecMul(a[3], b[3])>>

\* operator*(const Vector3&): the three row dot products
MatMulVec(a, v) == Vector3(dot(a[1], v), dot(a[2], v), dot(a[3], v))

\* operator*(double) and operator*(double, const Matrix3&)
MatScale(a, s) == <<VecScale(a[1], s), VecScale(a[2], s), VecScale(a[3], s)>>

ScaleMat(s, a) == MatScale(a, s)

det(a) ==
  RAdd(RSub(RMul(a[1][1], RSub(RMul(a[2][2], a[3][3]), RMul(a[2][3], a[3][2]))),
            RMul(a[1][2], RSub(RMul(a[2][1], a[3][3]), RMul(a[2][3], a[3][1])))),
       RMul(a[1][3], RSub(RMul(a[2][1], a[3][2]), RMul(a[2][2], a[3][1]))))

\* the literal 0.000001 of the singularity guard
kSingular == Q(1, 1000000)

\* the return statement with the h-for-g slip repeated in cell (2, 0)
inverseValue_SecondSlip(m, dt) ==
  LET a == m[1][1]
      b == m[1][2]
      c == m[1][3]
      d == m[2][1]
      e == m[2][2]
      f == m[2][3]
      g == m[3][1]
      h == m[3][2]
      k == m[3][3]
  IN  ScaleMat(RDiv(R(1), dt),
               Matrix3(RSub(RMul(e, k), RMul(f, h)),
                       RNeg(RSub(RMul(b, k), RMul(c, h))),
                       RSub(RMul(b, f), RMul(c, e)),
                       RNeg(RSub(RMul(d, k), RMul(f, g))),
                       RSub(RMul(a, k), RMul(c, g)),
                       RNeg(RSub(RMul(a, f), RMul(c, d))),
                       RSub(RMul(d, h), RMul(e, h)),
                       RNeg(RSub(RMul(a, h), RMul(b, h))),
                       RSub(RMul(a, e), RMul(b, d))))

\* the matrix of the return statement: 1 / det * Matrix3(...)
inverseValue(m, dt) ==
  LET a == m[1][1]
      b == m[1][2]
      c == m[1][3]
      d == m[2][1]
      e == m[2][2]
      f == m[2][3]
      g == m[3][1]
      h == m[3][2]
      k == m[3][3]
  IN  ScaleMat(RDiv(R(1), dt),
               Matrix3(RSub(RMul(e, k), RMul(f, h)),
                       RNeg(RSub(RMul(b, k), RMul(c, h))),
                       RSub(RMul(b, f), RMul(c, e)),
                       RNeg(RSub(RMul(d, k), RMul(f, g))),
                       RSub(RMul(a, k), RMul(c, g)),
                       RNeg(RSub(RMul(a, f), RMul(c, d))),
                       RSub(RMul(d, h), RMul(e, g)),
                       RNeg(RSub(RMul(a, h), RMul(b, h))),
                       RSub(RMul(a, e), RMul(b, d))))

\* inverse() with the guard written without std::fabs
inverse_NoFabs(m) ==
  IF RLt(det(m), kSingular)
  THEN [err |-> "runtime_error", val |-> <<>>]
  ELSE [err |-> "none", val |-> inverseValue(m, det(m))]

inverse(m) ==
  IF RLt(RAbs(det(m)), kSingular)
  THEN [err |-> "runtime_error", val |-> <<>>]
  ELSE [err |-> "none", val |-> inverseValue(m, det(m))]

\* product(const Matrix3&) dotting the rows of this with the rows of matrix
product_Rows(a, b) ==
  LET r0 == row(a, 0).val
      r1 == row(a, 1).val
      r2 == row(a, 2).val
      c0 == row(b, 0).val
      c1 == row(b, 1).val
      c2 == row(b, 2).val
  IN  Matrix3(dot(r0, c0), dot(r0, c1), dot(r0, c2),
              dot(r1, c0), dot(r1, c1), dot(r1, c2),
              dot(r2, c0), dot(r2, c1), dot(r2, c2))

\* product(const Matrix3&): rows of this dotted with columns of matrix
product(a, b) ==
  LET r0 == row(a, 0).val
      r1 == row(a, 1).val
      r2 == row(a, 2).val
      c0 == col(b, 0).val
      c1 == col(b, 1).val
      c2 == col(b, 2).val
  IN  Matrix3(dot(r0, c0), dot(r0, c1), dot(r0, c2),
              dot(r1, c0), dot(r1, c1), dot(r1, c2),
              dot(r2, c0), dot(r2, c1), dot(r2, c2))

\* product(const Vector3&) dotting the columns instead of the rows
productVec_Cols(a, v) ==
  Vector3(dot(col(a, 0).val, v), dot(col(a, 1).val, v), dot(col(a, 2).val, v))

\* product(const Vector3&): arr.at(i) = row(i).dot(vector)
productVec(a, v) ==
  Vector3(dot(row(a, 0).val, v), dot(row(a, 1).val, v), dot(row(a, 2).val, v))

(***************************************************************************)
(* Isometry: [rotation |-> rotation_, translation |-> translation_]        *)
(***************************************************************************)
Isometry(translation, rotation) ==
  [rotation |-> rotation, translation |-> translation]

\* a default constructor starting from the identity rotation
IsometryDefault_Identity == Isometry(Vector3(R(0), R(0), R(0)), Mat_kIdentity)

\* Isometry(): rotation_{Matrix3::kZero}, translation_{Vector3()}
IsometryDefault == Isometry(Vector3(R(0), R(0), R(0)), Mat_kZero)

fromTranslation(v) == Isometry(v, Mat_kIdentity)

\* An angle in radians is modelled by its exact cosine and sine.
Radians(c, s) == [c |-> c, s |-> s]

cos(radians) == radians.c

sin(radians) == radians.s

\* std::pow(x, 2.)
pow2(x) == RMul(x, x)

\* vector is non-zero with a rational norm (a zero axis divides by zero)
rotateAround(vector, radians) ==
  LET ux == RDiv(vector[1], norm(vector))
      uy == RDiv(vector[2], norm(vector))
      uz == RDiv(vector[3], norm(vector))
      cosAngle == cos(radians)
      sinAngle == sin(radians)
      omc == RSub(R(1), cosAngle)
      rotationMatrix ==
        Matrix3(RAdd(cosAngle, RMul(pow2(ux), omc)),
                RSub(RMul(RMul(ux, uy), omc), RMul(uz, sinAngle)),
                RAdd(RMul(RMul(ux, uz), omc), RMul(uy, sinAngle)),
                RAdd(RMul(RMul(uy, ux), omc), RMul(uz, sinAngle)),
                RAdd(cosAngle, RMul(pow2(uy), omc)),
                RSub(RMul(RMul(uy, uz), omc), RMul(ux, sinAngle)),
                RSub(RMul(RMul(uz, ux), omc), RMul(uy, sinAngle)),
                RAdd(RMul(RMul(uz, uy), omc), RMul(ux, sinAngle)),
                RAdd(cosAngle, RMul(pow2(uz), omc)))
  IN  Isometry(Vector3(R(0), R(0), R(0)), rotationMatrix)

\* operator*(const Isometry&)
IsoMul(a, b) ==
  Isometry(VecAdd(MatMulVec(a.rotation, b.translation), a.translation),
           MatMulElem(a.rotation, b.rotation))

compose(a, b) == IsoMul(a, b)

fromEulerAngles(roll, pitch, yaw) ==
  IsoMul(IsoMul(rotateAround(Vec_kUnitX, roll), rotateAround(Vec_kUnitY, pitch)),
         rotateAround(Vec_kUnitZ, yaw))

transform(a, v) == VecAdd(MatMulVec(a.rotation, v), a.translation)

\* operator*(const Vector3&)
IsoMulVec(a, v) == VecAdd(productVec(a.rotation, v), a.translation)

IsoInverse(a) ==
  LET inv_rot == inverse(a.rotation)
  IN  IF inv_rot.err # "none" THEN inv_rot
      ELSE [err |-> "none",
            val |-> Isometry(ScaleVec(R(-1), productVec(inv_rot.val, a.translation)),
                             inv_rot.val)]

IsoEq(a, b) == MatEq(a.rotation, b.rotation) /\ VecEq(a.translation, b.translation)

\* operator*= overwriting rotation_ before translation_ is computed
IsoMulAssign_RotationFirst(s, i, j) ==
  LET s1 == [s EXCEPT ![i].rotation = MatMulElem(s[i].rotation, s[j].rotation)]
  IN  [s1 EXCEPT ![i].translation =
         VecAdd(MatMulVec(s1[i].rotation, s1[j].translation), s1[i].translation)]

\* operator*= on the objects s[i] *= s[j]; i = j when the argument aliases this
IsoMulAssign(s, i, j) ==
  LET s1 == [s EXCEPT ![i].translation =
               VecAdd(MatMulVec(s[i].rotation, s[j].translation), s[i].translation)]
  IN  [s1 EXCEPT ![i].rotation = MatMulElem(s1[i].rotation, s1[j].rotation)]

\* operator= with its self-assignment guard
IsoAssign(s, i, j) ==
  IF i = j THEN s
  ELSE LET s1 == [s EXCEPT ![i].rotation = s[j].rotation]
       IN  [s1 EXCEPT ![i].translation = s1[j].translation]

(***************************************************************************)
(* Inputs                                                                  *)
(***************************************************************************)
\* largest integer cell / coordinate of the generated inputs
MaxCell == 1
MaxCoord == 1
\* indices run from -MaxIdx to 2 + MaxIdx
MaxIdx == 2
\* number of in-place calls explored
MaxSteps == 2
\* compared components lie up to MaxUlp epsilons off their base value
MaxUlp == 2

NoRet == [err |-> "none", val |-> <<>>]

Returned(v) == [err |-> "none", val |-> v]

\* rows (a, b, 0), (0, 1, 0), (g, h, 1): determinant a
CellMats ==
  {M3(a, b, 0, 0, 1, 0, g, h, 1) : a \in (0 - 1)..MaxCell, b \in 0..MaxCell,
                                   g \in 0..MaxCell, h \in (0 - 1)..MaxCell}

FullRows == {V3(1, 2, 3), V3(0, 1, 4), V3(5, 6, 0)}

FullMats == {<<r0, r1, r2>> : r0 \in FullRows, r1 \in FullRows, r2 \in FullRows}

Scales == {R(1), Q(1, 100), Q(1, 1000)}

MatInputs ==
  {MatScale(b, s) : b \in CellMats \cup FullMats \cup {Mat_kZero, Mat_kOnes},
                    s \in Scales}

(***************************************************************************)
(* Calls of the value-returning operations.  A call starts from the idle   *)
(* caller (op = "init"), picks its arguments and records what it returned  *)
(* or threw; Return hands control back to the caller.                      *)
(***************************************************************************)
InitPure ==
  /\ mat = Mat_kZero
  /\ vec = Vec_kZero
  /\ iso = [i \in 1..2 |-> IsometryDefault]
  /\ op = "init"
  /\ args = <<>>
  /\ ret = NoRet
  /\ steps = 0

Return ==
  /\ op # "init"
  /\ op' = "init"
  /\ args' = <<>>
  /\ ret' = NoRet
  /\ UNCHANGED <<mat, vec, iso, steps>>

CallDet ==
  \E m \in MatInputs :
    /\ op = "init"
    /\ op' = "det"
    /\ args' = <<m>>
    /\ ret' = Returned(det(m))
    /\ UNCHANGED <<mat, vec, iso, steps>>

CallMatInverse ==
  \E m \in MatInputs :
    /\ op = "init"
    /\ op' = "inverse"
    /\ args' = <<m>>
    /\ ret' = inverse(m)
    /\ UNCHANGED <<mat, vec, iso, steps>>

\* operand pairs of the two matrix multiplications: the unscaled matrices
\* with each other, and every input matrix with the identity on either side
MatPairInputs ==
  LET ms == FullMats \cup {Mat_kIdentity, Mat_kOnes, Mat_kZero}
  IN  {<<a, b>> : a \in ms, b \in ms}
        \cup {<<m, Mat_kIdentity>> : m \in MatInputs}
        \cup {<<Mat_kIdentity, m>> : m \in MatInputs}

CallProduct ==
  \E ab \in MatPairInputs :
    /\ op = "init"
    /\ op' = "product"
    /\ args' = ab
    /\ ret' = Returned(product(ab[1], ab[2]))
    /\ UNCHANGED <<mat, vec, iso, steps>>

\* a * b on two matrices
CallMatMul ==
  \E ab \in MatPairInputs :
    /\ op = "init"
    /\ op' = "matmul"
    /\ args' = ab
    /\ ret' = Returned(MatMulElem(ab[1], ab[2]))
    /\ UNCHANGED <<mat, vec, iso, steps>>

NextMat == CallDet \/ CallMatInverse \/ CallProduct \/ CallMatMul \/ Return

SpecMat == InitPure /\ [][NextMat]_vars

(***************************************************************************)
(* Isometry calls                                                          *)
(***************************************************************************)
\* quarter turns, and the angles whose cosine and sine are 3/5 and 4/5
QuarterTurn(q) ==
  CASE q % 4 = 0 -> Radians(R(1), R(0))
    [] q % 4 = 1 -> Radians(R(0), R(1))
    [] q % 4 = 2 -> Radians(R(0 - 1), R(0))
    [] q % 4 = 3 -> Radians(R(0), R(0 - 1))

AngleInputs ==
  {QuarterTurn(q) : q \in 0..3} \cup {Radians(Q(3, 5), Q(4, 5)), Radians(Q(0 - 4, 5), Q(3, 5))}

\* axes with a rational norm: 1, 2, 5 and 3
AxisInputs ==
  {Vec_kUnitX, Vec_kUnitY, Vec_kUnitZ, V3(0, 0, 2), V3(0, 3, 4), V3(1, 2, 2)}

PointInputs == {V3(1, 0, 0), V3(0, 1, 0), V3(1, 2, 3), V3(0 - 1, 0, 2)}

TranslationInputs == {V3(x, 2, 0 - x) : x \in 0..MaxCoord}

RotationInputs ==
  { Mat_kIdentity,
    rotateAround(Vec_kUnitZ, QuarterTurn(1)).rotation,
    rotateAround(V3(0, 3, 4), QuarterTurn(1)).rotation,
    rotateAround(Vec_kUnitX, Radians(Q(3, 5), Q(4, 5))).rotation,
    M3(1, 1, 0, 0, 1, 0, 0, 1, 1),
    M3(2, 0, 1, 0, 1, 0, 0, 0, 1) }

IsoInputs ==
  {Isometry(t, r) : t \in TranslationInputs, r \in RotationInputs}
    \cup {IsometryDefault, fromTranslation(Vec_kZero)}

CallIsometryDefault ==
  /\ op = "init"
  /\ op' = "Isometry"
  /\ args' = <<>>
  /\ ret' = Returned(IsometryDefault)
  /\ UNCHANGED <<mat, vec, iso, steps>>

CallFromTranslation ==
  \E v \in PointInputs :
    /\ op = "init"
    /\ op' = "fromTranslation"
    /\ args' = <<v>>
    /\ ret' = Returned(fromTranslation(v))
    /\ UNCHANGED <<mat, vec, iso, steps>>

CallRotateAround ==
  \E v \in AxisInputs : \E r \in AngleInputs :
    /\ op = "init"
    /\ op' = "rotateAround"
    /\ args' = <<v, r>>
    /\ ret' = Returned(rotateAround(v, r))
    /\ UNCHANGED <<mat, vec, iso, steps>>

CallFromEulerAngles ==
  \E roll \in AngleInputs : \E pitch \in AngleInputs : \E yaw \in AngleInputs :
    /\ op = "init"
    /\ op' = "fromEulerAngles"
    /\ args' = <<roll, pitch, yaw>>
    /\ ret' = Returned(fromEulerAngles(roll, pitch, yaw))
    /\ UNCHANGED <<mat, vec, iso, steps>>

CallTransform ==
  \E a \in IsoInputs : \E v \in PointInputs :
    /\ op = "init"
    /\ op' = "transform"
    /\ args' = <<a, v>>
    /\ ret' = Returned(transform(a, v))
    /\ UNCHANGED <<mat, vec, iso, steps>>

CallIsoMulVec ==
  \E a \in IsoInputs : \E v \in PointInputs :
    /\ op = "init"
    /\ op' = "mulvec"
    /\ args' = <<a, v>>
    /\ ret' = Returned(IsoMulVec(a, v))
    /\ UNCHANGED <<mat, vec, iso, steps>>

CallIsoInverse ==
  \E a \in IsoInputs \cup {rotateAround(v, r) : v \in AxisInputs, r \in AngleInputs} :
    /\ op = "init"
    /\ op' = "isoinverse"
    /\ args' = <<a>>
    /\ ret' = IsoInverse(a)
    /\ UNCHANGED <<mat, vec, iso, steps>>

CallCompose ==
  \E a \in IsoInputs : \E b \in IsoInputs :
    /\ op = "init"
    /\ op' = "compose"
    /\ args' = <<a, b>>
    /\ ret' = Returned(compose(a, b))
    /\ UNCHANGED <<mat, vec, iso, steps>>

CallIsoMul ==
  \E a \in IsoInputs : \E b \in IsoInputs :
    /\ op = "init"
    /\ op' = "mul"
    /\ args' = <<a, b>>
    /\ ret' = Returned(IsoMul(a, b))
    /\ UNCHANGED <<mat, vec, iso, steps>>

\* the expression a * b * c
CallIsoMulMul ==
  \E a \in IsoInputs : \E b \in IsoInputs : \E c \in IsoInputs :
    /\ op = "init"
    /\ op' = "mulmul"
    /\ args' = <<a, b, c>>
    /\ ret' = Returned(IsoMul(IsoMul(a, b), c))
    /\ UNCHANGED <<mat, vec, iso, steps>>

NextIso ==
  \/ CallIsometryDefault
  \/ CallFromTranslation
  \/ CallRotateAround
  \/ CallFromEulerAngles
  \/ CallTransform
  \/ CallIsoMulVec
  \/ CallIsoInverse
  \/ CallCompose
  \/ CallIsoMul
  \/ CallIsoMulMul
  \/ Return

SpecIso == InitPure /\ [][NextIso]_vars

(***************************************************************************)
(* In-place operators on two Isometry objects                              *)
(***************************************************************************)
\* the isometries whose cells have a denominator of at most 5: the cells are
\* multiplied by themselves at every a *= a, and their denominators with them
AssignInputs ==
  {a \in IsoInputs : \A i \in 1..3 : \A j \in 1..3 : a.rotation[i][j].d <= 5}

InitAssign ==
  /\ mat = Mat_kZero
  /\ vec = Vec_kZero
  /\ iso \in [1..2 -> AssignInputs]
  /\ op = "init"
  /\ args = <<>>
  /\ ret = NoRet
  /\ steps = 0

\* iso[i] *= iso[j], returning *this
MulAssign ==
  \E i \in 1..2 : \E j \in 1..2 :
    /\ steps < MaxSteps
    /\ iso' = IsoMulAssign(iso, i, j)
    /\ op' = "mulassign"
    /\ args' = <<i, j>>
    /\ ret' = Returned(iso'[i])
    /\ steps' = steps + 1
    /\ UNCHANGED <<mat, vec>>

\* iso[i] = iso[j], returning *this
Assign ==
  \E i \in 1..2 : \E j \in 1..2 :
    /\ steps < MaxSteps
    /\ iso' = IsoAssign(iso, i, j)
    /\ op' = "assign"
    /\ args' = <<i, j>>
    /\ ret' = Returned(iso'[i])
    /\ steps' = steps + 1
    /\ UNCHANGED <<mat, vec>>

NextAssign == MulAssign \/ Assign

SpecAssign == InitAssign /\ [][NextAssign]_vars

(***************************************************************************)
(* Indexed accessors on a Vector3 and a Matrix3 object                     *)
(***************************************************************************)
Indices == (0 - MaxIdx)..(2 + MaxIdx)

WrittenCell == R(7)

WrittenRow == V3(7, 8, 9)

InitIndex ==
  /\ mat \in {M3(1, 2, 3, 4, 5, 6, 7, 8, 10), Mat_kIdentity}
  /\ vec \in {V3(1, 2, 3), V3(0 - 1, 0, 2)}
  /\ iso = [i \in 1..2 |-> IsometryDefault]
  /\ op = "init"
  /\ args = <<>>
  /\ ret = NoRet
  /\ steps = 0

\* vec[i] on a const Vector3
VecGet ==
  \E i \in Indices :
    /\ op' = "vec_get"
    /\ args' = <<i>>
    /\ ret' = VecIndex(vec, i)
    /\ UNCHANGED <<mat, vec, iso, steps>>

\* vec[i] = WrittenCell through the reference of the non-const operator[]
VecSet ==
  \E i \in Indices :
    LET ref == VecIndexRef(vec, i)
    IN  /\ op' = "vec_set"
        /\ args' = <<i>>
        /\ ret' = ref
        /\ vec' = IF ref.err = "none" THEN [vec EXCEPT ![ref.val] = WrittenCell]
                  ELSE vec
        /\ UNCHANGED <<mat, iso, steps>>

\* mat[i] on a const Matrix3
MatGet ==
  \E i \in Indices :
    /\ op' = "mat_get"
    /\ args' = <<i>>
    /\ ret' = MatIndex(mat, i)
    /\ UNCHANGED <<mat, vec, iso, steps>>

\* mat[i] = WrittenRow through the reference of the non-const operator[]
MatSet ==
  \E i \in Indices :
    LET ref == MatIndexRef(mat, i)
    IN  /\ op' = "mat_set"
        /\ args' = <<i>>
        /\ ret' = ref
        /\ mat' = IF ref.err = "none" THEN [mat EXCEPT ![ref.val] = WrittenRow]
                  ELSE mat
        /\ UNCHANGED <<vec, iso, steps>>

\* mat.row(i) on a const Matrix3
RowGet ==
  \E i \in Indices :
    /\ op' = "row_get"
    /\ args' = <<i>>
    /\ ret' = row(mat, i)
    /\ UNCHANGED <<mat, vec, iso, steps>>

\* mat.row(i) = WrittenRow through the reference of the non-const row
RowSet ==
  \E i \in Indices :
    LET ref == rowRef(mat, i)
    IN  /\ op' = "row_set"
        /\ args' = <<i>>
        /\ ret' = ref
        /\ mat' = IF ref.err = "none" THEN [mat EXCEPT ![ref.val] = WrittenRow]
                  ELSE mat
        /\ UNCHANGED <<vec, iso, steps>>

\* mat.col(i)
ColGet ==
  \E i \in Indices :
    /\ op' = "col_get"
    /\ args' = <<i>>
    /\ ret' = col(mat, i)
    /\ UNCHANGED <<mat, vec, iso, steps>>

NextIndex == VecGet \/ VecSet \/ MatGet \/ MatSet \/ RowGet \/ RowSet \/ ColGet

SpecIndex == InitIndex /\ [][NextIndex]_vars

(***************************************************************************)
(* Vector3 calls                                                           *)
(***************************************************************************)
\* the doubles x + k * epsilon around x
Around(x) == {RAdd(x, [n |-> 0, d |-> 1, u |-> k]) : k \in (0 - MaxUlp)..MaxUlp}

\* vectors for the comparisons: x around 0, y around 1, z an epsilon on
\* either side of -1/2
NearVecs ==
  {Vector3(x, y, z) : x \in Around(R(0)), y \in Around(R(1)),
                      z \in {RSub(Q(0 - 1, 2), Epsilon), RAdd(Q(0 - 1, 2), Epsilon)}}

\* vectors for the products
VecInputs ==
  {V3(x, y, z) : x \in (0 - 1)..MaxCoord, y \in (0 - 1)..MaxCoord,
                 z \in (0 - 1)..MaxCoord}
    \cup {Vector3(Q(1, 2), R(3), Q(0 - 2, 3))}

\* a == b
CallVecEq ==
  \E a \in NearVecs \cup {V3(1, 2, 3)} : \E b \in NearVecs \cup {V3(1, 2, 3)} :
    /\ op = "init"
    /\ op' = "eq"
    /\ args' = <<a, b>>
    /\ ret' = Returned(VecEq(a, b))
    /\ UNCHANGED <<mat, vec, iso, steps>>

\* a != b
CallVecNe ==
  \E a \in NearVecs \cup {V3(1, 2, 3)} : \E b \in NearVecs \cup {V3(1, 2, 3)} :
    /\ op = "init"
    /\ op' = "ne"
    /\ args' = <<a, b>>
    /\ ret' = Returned(VecNe(a, b))
    /\ UNCHANGED <<mat, vec, iso, steps>>

CallCross ==
  \E a \in VecInputs : \E b \in VecInputs :
    /\ op = "init"
    /\ op' = "cross"
    /\ args' = <<a, b>>
    /\ ret' = Returned(cross(a, b))
    /\ UNCHANGED <<mat, vec, iso, steps>>

CallDot ==
  \E a \in VecInputs : \E b \in VecInputs :
    /\ op = "init"
    /\ op' = "dot"
    /\ args' = <<a, b>>
    /\ ret' = Returned(dot(a, b))
    /\ UNCHANGED <<mat, vec, iso, steps>>

NextVec == CallVecEq \/ CallVecNe \/ CallCross \/ CallDot \/ Return

SpecVec == InitPure /\ [][NextVec]_vars

(***************************************************************************)
(* Matrix3 properties                                                      *)
(***************************************************************************)
IsMatrix(m) ==
  /\ Len(m) = 3
  /\ \A i \in 1..3 : Len(m[i]) = 3

\* the 2x2 minor of m without row i and column j
Minor(m, i, j) ==
  LET rs == IF i = 1 THEN <<2, 3>> ELSE IF i = 2 THEN <<1, 3>> ELSE <<1, 2>>
      cs == IF j = 1 THEN <<2, 3>> ELSE IF j = 2 THEN <<1, 3>> ELSE <<1, 2>>
  IN  RSub(RMul(m[rs[1]][cs[1]], m[rs[2]][cs[2]]),
           RMul(m[rs[1]][cs[2]], m[rs[2]][cs[1]]))

Cofactor(m, i, j) ==
  IF (i + j) % 2 = 0 THEN Minor(m, i, j) ELSE RNeg(Minor(m, i, j))

\* cell (i, j) of the adjugate: the cofactor of cell (j, i)
Adjugate(m, i, j) == Cofactor(m, j, i)

Invertible(m) == RLe(kSingular, RAbs(det(m)))

\* C1: for every matrix M with |M.det()| >= 1e-6, M.inverse() returns and
\* M.product(M.inverse()) equals the identity matrix under Matrix3 equality.
C1_InverseRoundTrip ==
  (op = "inverse" /\ Invertible(args[1])) =>
    /\ ret.err = "none"
    /\ MatEq(product(args[1], ret.val), Mat_kIdentity)

\* C5: inverse() throws the runtime error exactly when |det()| < 1e-6 and
\* returns a matrix otherwise; the zero matrix throws, the identity matrix has
\* determinant 1 and does not, and a throwing call produces no result.
C5_SingularGuard ==
  op = "inverse" =>
    /\ (ret.err = "runtime_error") <=>
         (Abs(det(args[1]).n) * 1000000 < det(args[1]).d)
    /\ ret.err \in {"runtime_error", "none"}
    /\ ret.err = "runtime_error" => ret.val = <<>>
    /\ ret.err = "none" => IsMatrix(ret.val)
    /\ args[1] = Mat_kZero => ret.err = "runtime_error"
    /\ args[1] = Mat_kIdentity => (det(args[1]) = R(1) /\ ret.err = "none")

\* a near-singular matrix with a non-zero determinant was rejected
C5_Witness ==
  /\ op = "inverse"
  /\ ret.err = "runtime_error"
  /\ det(args[1]) # R(0)

\* C6: for every matrix M that passes the guard, each of the 9 cells of
\* M.inverse() is the corresponding cell of the adjugate divided by det(M).
C6_InverseIsAdjugateOverDet ==
  (op = "inverse" /\ ret.err = "none") =>
    \A i \in 1..3 : \A j \in 1..3 :
      ret.val[i][j] = RDiv(Adjugate(args[1], i, j), det(args[1]))

(***************************************************************************)
(* Isometry properties                                                     *)
(***************************************************************************)
\* sum over k of x[k] * y[k]
Sum3(f) == RAdd(RAdd(f[1], f[2]), f[3])

\* the matrix product: cell (i, j) is row i of a times column j of b
MatTimes(a, b) ==
  [i \in 1..3 |-> [j \in 1..3 |-> Sum3([k \in 1..3 |-> RMul(a[i][k], b[k][j])])]]

\* the matrix-vector product: component i is row i of a times v
MatApply(a, v) == [i \in 1..3 |-> Sum3([k \in 1..3 |-> RMul(a[i][k], v[k])])]

Transpose(a) == [i \in 1..3 |-> [j \in 1..3 |-> a[j][i]]]

\* orthonormal with determinant 1
IsRotation(a) ==
  /\ MatTimes(a, Transpose(a)) = Mat_kIdentity
  /\ det(a) = R(1)

AxisRotationX(r) ==
  Matrix3(R(1), R(0), R(0), R(0), cos(r), RNeg(sin(r)), R(0), sin(r), cos(r))

AxisRotationY(r) ==
  Matrix3(cos(r), R(0), sin(r), R(0), R(1), R(0), RNeg(sin(r)), R(0), cos(r))

AxisRotationZ(r) ==
  Matrix3(cos(r), RNeg(sin(r)), R(0), sin(r), cos(r), R(0), R(0), R(0), R(1))

\* C2: for all isometries A = (R1, t1) and B = (R2, t2), A.compose(B) and
\* A * B return the isometry with rotation the matrix product R1.R2 and
\* translation R1.t2 + t1.
C2_ComposeIsMatrixProduct ==
  op \in {"compose", "mul"} =>
    /\ ret.val.rotation = MatTimes(args[1].rotation, args[2].rotation)
    /\ ret.val.translation =
         VecAdd(MatApply(args[1].rotation, args[2].translation), args[1].translation)

\* C3: composition is associative: (A * B) * C == A * (B * C) under Isometry
\* equality, for all isometries A, B, C.
C3_ComposeAssociative ==
  op = "mulmul" =>
    IsoEq(ret.val, IsoMul(args[1], IsoMul(args[2], args[3])))

\* C4: for every isometry I whose rotation is a rotation matrix and every
\* point p, I.inverse().compose(I).transform(p) == p.
C4_InverseRoundTrip ==
  (op = "isoinverse" /\ IsRotation(args[1].rotation)) =>
    /\ ret.err = "none"
    /\ \A p \in PointInputs :
         VecEq(transform(compose(ret.val, args[1]), p), p)

\* C7: the rotation of fromEulerAngles(roll, pitch, yaw) is the matrix product
\* Rx(roll).Ry(pitch).Rz(yaw) of the three axis rotations and its translation
\* is zero.
C7_EulerIsProductOfAxisRotations ==
  op = "fromEulerAngles" =>
    /\ ret.val.rotation =
         MatTimes(MatTimes(AxisRotationX(args[1]), AxisRotationY(args[2])),
                  AxisRotationZ(args[3]))
    /\ ret.val.translation = Vec_kZero

\* C8: for every isometry I and point p, I * p and I.transform(p) return the
\* same vector, the matrix-vector product rotation.p plus the translation.
C8_MulVecIsTransform ==
  /\ op = "mulvec" =>
       /\ ret.val = transform(args[1], args[2])
       /\ ret.val = VecAdd(MatApply(args[1].rotation, args[2]), args[1].translation)
  /\ op = "transform" =>
       /\ ret.val = IsoMulVec(args[1], args[2])
       /\ ret.val = VecAdd(MatApply(args[1].rotation, args[2]), args[1].translation)

\* I * p was called with a non-symmetric rotation and a non-zero translation
C8_Witness ==
  /\ op = "mulvec"
  /\ args[1].rotation # Transpose(args[1].rotation)
  /\ args[1].translation # Vec_kZero
  /\ ret.val # args[2]

(***************************************************************************)
(* In-place operator and accessor properties                               *)
(***************************************************************************)
\* C9: after a *= b, a holds the value a * b had for the pre-call a and b is
\* unchanged; when b is the same object as a, a holds the pre-call a * a.
C9_MulAssignIsMul ==
  [][op' = "mulassign" =>
       LET i == args'[1]
           j == args'[2]
       IN  /\ iso'[i] = IsoMul(iso[i], iso[j])
           /\ i # j => iso'[j] = iso[j]
           /\ ret' = Returned(iso'[i])]_vars

\* a *= a was called on an isometry with a translation and a rotation
C9_Witness ==
  /\ op = "mulassign"
  /\ args = <<1, 1>>
  /\ iso[1].translation # Vec_kZero
  /\ iso[1].rotation # Mat_kZero
  /\ iso[1].rotation # Mat_kIdentity

\* C10: every indexed accessor throws out_of_range for an index outside 0..2,
\* leaving the vector and the matrix unchanged, and returns the addressed
\* component, row or column for the indices 0, 1, 2.
C10_IndexedAccess ==
  [][LET i == args'[1]
     IN  /\ i \notin 0..2 =>
              /\ ret'.err = "out_of_range"
              /\ vec' = vec
              /\ mat' = mat
         /\ i \in 0..2 =>
              /\ ret'.err = "none"
              /\ op' = "vec_get" => ret'.val = vec[i + 1]
              /\ op' = "vec_set" =>
                   /\ ret'.val = i + 1
                   /\ vec'[i + 1] = WrittenCell
                   /\ \A k \in 1..3 : k # i + 1 => vec'[k] = vec[k]
              /\ op' \in {"mat_get", "row_get"} => ret'.val = mat[i + 1]
              /\ op' \in {"mat_set", "row_set"} =>
                   /\ ret'.val = i + 1
                   /\ mat'[i + 1] = WrittenRow
                   /\ \A k \in 1..3 : k # i + 1 => mat'[k] = mat[k]
              /\ op' = "col_get" =>
                   ret'.val = <<mat[1][i + 1], mat[2][i + 1], mat[3][i + 1]>>]_vars

\* col threw for an index above 2 on a matrix that was written before
C10_Witness ==
  /\ op = "col_get"
  /\ args[1] > 2
  /\ ret.err = "out_of_range"
  /\ mat[2] = WrittenRow
  /\ vec[1] = WrittenCell

(***************************************************************************)
(* Matrix multiplication properties                                        *)
(***************************************************************************)
\* C11: product(matrix) is the matrix product (cell (i, j) is row i of this
\* dotted with column j of the argument), operator*(matrix) multiplies the
\* corresponding cells, and M.product(Identity) == Identity.product(M) == M.
C11_ProductVersusCellwise ==
  /\ op = "product" =>
       /\ ret.val = MatTimes(args[1], args[2])
       /\ args[2] = Mat_kIdentity => MatEq(ret.val, args[1])
       /\ args[1] = Mat_kIdentity => MatEq(ret.val, args[2])
  /\ op = "matmul" =>
       \A i \in 1..3 : \A j \in 1..3 :
         ret.val[i][j] = RMul(args[1][i][j], args[2][i][j])

\* product returned something else than operator* would for the same operands
C11_Witness ==
  /\ op = "product"
  /\ ~MatEq(ret.val, MatMulElem(args[1], args[2]))
  /\ args[1] # Mat_kIdentity
  /\ args[2] # Mat_kIdentity

\* the cells of the inverse: adjugate over determinant
CanonicalInverse(m) ==
  [i \in 1..3 |-> [j \in 1..3 |-> RDiv(Adjugate(m, i, j), det(m))]]

\* C16: inverse() differs from the adjugate/det inverse in at most one cell,
\* row 2 column 1; for an invertible matrix with rows (a,b,c), (d,e,f), (g,h,k)
\* it returns the inverse exactly when b * (h - g) == 0, and what it returns
\* for every other invertible matrix is not the inverse.
C16_InverseOffInOneCell ==
  (op = "inverse" /\ ret.err = "none") =>
    LET m == args[1]
        b == m[1][2]
        g == m[3][1]
        h == m[3][2]
        isCanonical == ret.val = CanonicalInverse(m)
    IN  /\ \A i \in 1..3 : \A j \in 1..3 :
             <<i, j>> # <<3, 2>> => ret.val[i][j] = CanonicalInverse(m)[i][j]
        /\ isCanonical <=> (RMul(b, RSub(h, g)) = R(0))
        /\ isCanonical => MatEq(product(m, ret.val), Mat_kIdentity)
        /\ ~isCanonical => ~MatEq(product(m, ret.val), Mat_kIdentity)

\* inverse() returned a matrix whose cell in row 2, column 1 is off
C16_Witness ==
  /\ op = "inverse"
  /\ ret.err = "none"
  /\ RMul(args[1][1][2], RSub(args[1][3][2], args[1][3][1])) # R(0)
  /\ ret.val[3][2] # CanonicalInverse(args[1])[3][2]
  /\ ret.val[3][1] = CanonicalInverse(args[1])[3][1]

(***************************************************************************)
(* Default isometry and composition order                                  *)
(***************************************************************************)
ZeroRotationIsometry ==
  [rotation |-> M3(0, 0, 0, 0, 0, 0, 0, 0, 0), translation |-> V3(0, 0, 0)]

\* C14: a default-constructed Isometry has the zero matrix as rotation and the
\* zero vector as translation; inverse() on it throws the singular-matrix
\* error and transform maps every point to the zero vector.
C14_DefaultIsDegenerate ==
  /\ op = "Isometry" =>
       /\ ret.val = ZeroRotationIsometry
       /\ IsoInverse(ret.val).err = "runtime_error"
       /\ \A p \in PointInputs : transform(ret.val, p) = V3(0, 0, 0)
  /\ (op = "isoinverse" /\ args[1] = ZeroRotationIsometry) =>
       (ret.err = "runtime_error" /\ ret.val = <<>>)
  /\ (op = "transform" /\ args[1] = ZeroRotationIsometry) =>
       ret.val = V3(0, 0, 0)

\* inverse() was called on the zero-rotation isometry and threw
C14_Witness ==
  /\ op = "isoinverse"
  /\ args[1] = ZeroRotationIsometry
  /\ ret.err = "runtime_error"

\* C15: composition applies the argument first and then this:
\* A.compose(B).transform(p) == A.transform(B.transform(p)) for all A, B, p,
\* and composing with fromTranslation(zero) on either side leaves an isometry
\* unchanged.
C15_ComposeAppliesArgumentFirst ==
  op = "compose" =>
    /\ \A p \in PointInputs :
         VecEq(transform(ret.val, p), transform(args[1], transform(args[2], p)))
    /\ args[2] = fromTranslation(Vec_kZero) => IsoEq(ret.val, args[1])
    /\ args[1] = fromTranslation(Vec_kZero) => IsoEq(ret.val, args[2])

(***************************************************************************)
(* Vector3 properties                                                      *)
(***************************************************************************)
\* |x - y| <= epsilon for two doubles of the comparisons: the same rational
\* part and epsilon parts at most one apart
WithinEpsilon(x, y) == x.n = y.n /\ x.d = y.d /\ Abs(x.u - y.u) <= 1

\* |x - y| = 2 * epsilon
TwoEpsilonApart(x, y) == x.n = y.n /\ x.d = y.d /\ Abs(x.u - y.u) = 2

\* C12: Vector3 equality is reflexive, symmetric, and holds iff every
\* component differs by at most epsilon, so that a difference of 2 * epsilon
\* in one component makes the vectors unequal; operator!= is its negation.
C12_VecEquality ==
  /\ op = "eq" =>
       LET a == args[1]
           b == args[2]
       IN  /\ ret.val <=> \A i \in 1..3 : WithinEpsilon(a[i], b[i])
           /\ a = b => ret.val
           /\ ret.val <=> VecEq(b, a)
           /\ (\E i \in 1..3 : TwoEpsilonApart(a[i], b[i])) => ~ret.val
           /\ ret.val <=> ~VecNe(a, b)
  /\ op = "ne" =>
       LET a == args[1]
           b == args[2]
       IN  /\ ret.val <=> ~VecEq(a, b)
           /\ ret.val <=> \E i \in 1..3 : ~WithinEpsilon(a[i], b[i])
           /\ ret.val <=> VecNe(b, a)

\* two different vectors, an epsilon apart in every component, compared equal
C12_Witness ==
  /\ op = "eq"
  /\ ret.val
  /\ \A i \in 1..3 : args[1][i] # args[2][i] => Abs(args[1][i].u - args[2][i].u) = 1
  /\ args[1][1] # args[2][1]
  /\ args[1][2] # args[2][2]

\* C13: the cross product is anticommutative, a.cross(b) == -1 * b.cross(a),
\* and a.cross(a) is the zero vector.
C13_CrossAnticommutative ==
  op = "cross" =>
    /\ VecEq(ret.val, ScaleVec(R(0 - 1), cross(args[2], args[1])))
    /\ args[1] = args[2] => ret.val = V3(0, 0, 0)

\* the cross product of two vectors that are not parallel
C13_Witness ==
  /\ op = "cross"
  /\ \A i \in 1..3 : ret.val[i] # R(0)

====
